---- MODULE Spec2Model ----
(***************************************************************************)
(* Model of health-etl/glue_job_script.py: a Glue job that reads CSV       *)
(* objects from S3, stamps every row with the UTC ingest date and appends  *)
(* the rows to a Parquet dataset partitioned by that date.                 *)
(*                                                                         *)
(* Strings the script inspects or builds (object keys, bucket names,       *)
(* paths) are sequences of one-character strings, so that lower(),         *)
(* endswith() and the f-string concatenations are computed, and the engine *)
(* parses the path it is handed back into a bucket and a key.              *)
(* Executions of the script are the elements of Runs; they share the       *)
(* clock, the raw buckets (Store) and the curated dataset (dest).          *)
(***************************************************************************)
EXTENDS Integers, Sequences, FiniteSets, Bags, TLC

\* Last day the model's UTC clock reaches (day numbers 0..MaxDate).
MaxDate == 1

\* The executions of the script (they may overlap in time).
Runs == {"run1", "run2"}

VARIABLES
    utc_date,      \* the UTC calendar day of "now" (dt.datetime.now(dt.timezone.utc))
    dest,          \* the curated dataset: a bag of stored rows
    pc,            \* pc[r]: where execution r stands in the script
    argv,          \* argv[r]: the options execution r was started with (sys.argv)
    args,          \* args[r]: the dict getResolvedOptions returned
    ingest_date,   \* ingest_date[r]: the string computed at line 26
    src_path,      \* src_path[r]: line 37
    df,            \* df[r]: the DataFrame of line 39
    df2,           \* df2[r]: the DataFrame of line 44
    out_path,      \* out_path[r]: line 46
    stdout,        \* stdout[r]: the lines printed
    exit_status,   \* exit_status[r]: "none" while running, then "0" or "1"
    error,         \* error[r]: the exception raised in execution r, "none" if none
    started_on,    \* history: the UTC day execution r was started on (-1: not yet)
    written_on,    \* history: the UTC day execution r's write returned on (-1: not yet)
    trace,         \* history: the steps execution r has taken, in order
    written        \* history: the bag of rows execution r committed to dest

vars == <<utc_date, dest, pc, argv, args, ingest_date, src_path, df, df2,
          out_path, stdout, exit_status, error, started_on, written_on, trace,
          written>>

----------------------------------------------------------------------------
(* Strings *)

Str_s3      == <<"s", "3", ":", "/", "/">>
Str_slash   == <<"/">>
Str_dotcsv  == <<".", "c", "s", "v">>
Str_csv     == <<"c", "s", "v">>
Str_empty   == <<>>

Bkt_raw     == <<"r", "a", "w">>
Bkt_lake    == <<"l", "k">>
Bkt_cur     == <<"c", "u", "r">>
Pfx_d       == <<"d">>
Pfx_h       == <<"h">>
Pfx_out     == <<"o", "u", "t">>
Pfx_alt     == <<"a", "l", "t">>
Key_FCSV    == <<"d", "/", "F", ".", "C", "S", "V">>
Key_bjson   == <<"d", "/", "b", ".", "j", "s", "o", "n">>
Key_acsv    == <<"d", "/", "a", "c", "s", "v">>
Key_icsv    == <<"h", "/", "i", ".", "c", "s", "v">>

\* str.lower() on one character (the upper-case letters of the model's keys).
LowerChar(c) ==
    CASE c = "F" -> "f"
      [] c = "C" -> "c"
      [] c = "S" -> "s"
      [] c = "V" -> "v"
      [] OTHER   -> c

\* str.lower()
Lower(s) == [i \in 1..Len(s) |-> LowerChar(s[i])]

\* str.endswith(suffix)
EndsWith(s, suffix) ==
    /\ Len(s) >= Len(suffix)
    /\ SubSeq(s, Len(s) - Len(suffix) + 1, Len(s)) = suffix

StartsWith(s, prefix) ==
    /\ Len(s) >= Len(prefix)
    /\ SubSeq(s, 1, Len(prefix)) = prefix

\* strftime("%Y-%m-%d") of day number d.
DayStrings == <<"2026-11-01", "2026-11-02", "2026-11-03", "2026-11-04">>
Strftime(d) == DayStrings[d + 1]

----------------------------------------------------------------------------
(* The raw buckets.  An object has a header row and data rows; a cell is a *)
(* string.  Objects listed together share their header.                    *)

Store ==
    { [bucket |-> Bkt_raw, key |-> Key_FCSV, header |-> <<"id", "name">>,
       rows |-> << <<"1", "ann">>, <<"2", "bob">> >>],
      [bucket |-> Bkt_raw, key |-> Key_bjson, header |-> <<"id", "name">>,
       rows |-> << <<"3", "cy">> >>],
      [bucket |-> Bkt_raw, key |-> Key_icsv, header |-> <<"id", "ingest_date">>,
       rows |-> << <<"4", "1999-12-31">> >>],
      [bucket |-> Bkt_lake, key |-> Key_FCSV, header |-> <<"id", "name">>,
       rows |-> << <<"1", "ann">>, <<"1", "ann">> >>] }

\* Rows that an earlier run left in the curated dataset, in the partition of day 0.
Legacy ==
    SetToBag({ [path |-> Str_s3 \o Bkt_cur \o Str_slash \o Pfx_out,
                ingest_date |-> Strftime(0),
                cols |-> <<"id", "name">>,
                cells |-> <<"0", "old">>] })

----------------------------------------------------------------------------
(* Bags *)

RECURSIVE BagOfSeq(_)
BagOfSeq(s) ==
    IF s = <<>> THEN EmptyBag ELSE SetToBag({Head(s)}) (+) BagOfSeq(Tail(s))

RECURSIVE SumCopies(_, _)
SumCopies(S, B) ==
    IF S = {} THEN 0
    ELSE LET t == CHOOSE x \in S : TRUE
         IN  CopiesIn(t, B) + SumCopies(S \ {t}, B)

\* The bag { f[t] : t in B }, multiplicities added up.
MapBag(f, B) ==
    LET img == {f[t] : t \in BagToSet(B)}
    IN  [u \in img |-> SumCopies({t \in BagToSet(B) : f[t] = u}, B)]

----------------------------------------------------------------------------
(* The engine: spark.read...csv(path), withColumn, write...parquet(path)   *)

\* Position of the first "/" of s.
FirstSlash(s) == CHOOSE i \in 1..Len(s) : s[i] = "/" /\ \A j \in 1..(i - 1) : s[j] # "/"

\* s3://<bucket>/<key>: the bucket and the key the engine takes from a path.
PathBucket(path) ==
    LET rest == SubSeq(path, Len(Str_s3) + 1, Len(path))
    IN  SubSeq(rest, 1, FirstSlash(rest) - 1)

PathKey(path) ==
    LET rest == SubSeq(path, Len(Str_s3) + 1, Len(path))
    IN  SubSeq(rest, FirstSlash(rest) + 1, Len(rest))

\* Key k lies in the directory named dir.
IsUnder(k, dir) ==
    \/ dir = Str_empty
    \/ EndsWith(dir, Str_slash) /\ StartsWith(k, dir)
    \/ StartsWith(k, dir \o Str_slash)

\* The objects a path resolves to: the object of that key, or every object
\* under it when it names a directory.
Listing(path) ==
    {o \in Store : /\ o.bucket = PathBucket(path)
                   /\ (o.key = PathKey(path) \/ IsUnder(o.key, PathKey(path)))}

RECURSIVE RowsOf(_)
RowsOf(objs) ==
    IF objs = {} THEN EmptyBag
    ELSE LET o == CHOOSE x \in objs : TRUE
         IN  BagOfSeq(o.rows) (+) RowsOf(objs \ {o})

\* spark.read.option("header", "true").option("inferSchema", "true").csv(path)
\* when the path resolves to at least one object.
ReadCsv(path) ==
    [cols |-> (CHOOSE o \in Listing(path) : TRUE).header,
     rows |-> RowsOf(Listing(path))]

NoDF == [cols |-> <<>>, rows |-> EmptyBag]

\* DataFrame.withColumn(name, F.lit(v)): a column of that name is replaced,
\* otherwise the column is added last.
WithColumn(d, name, v) ==
    IF \E i \in 1..Len(d.cols) : d.cols[i] = name
    THEN LET put == [t \in BagToSet(d.rows) |->
                        [i \in 1..Len(t) |-> IF d.cols[i] = name THEN v ELSE t[i]]]
         IN  [cols |-> d.cols, rows |-> MapBag(put, d.rows)]
    ELSE LET add == [t \in BagToSet(d.rows) |-> Append(t, v)]
         IN  [cols |-> Append(d.cols, name), rows |-> MapBag(add, d.rows)]

\* s without its i-th element.
Without(s, i) == SubSeq(s, 1, i - 1) \o SubSeq(s, i + 1, Len(s))

ColumnIndex(d, name) == CHOOSE i \in 1..Len(d.cols) : d.cols[i] = name

\* .partitionBy(col).parquet(path): each row is stored under
\* <path>/<col>=<its value of col>, without that column in the file.
Partitioned(d, col, path) ==
    LET i == ColumnIndex(d, col)
        stored == [t \in BagToSet(d.rows) |->
                      [path |-> path, ingest_date |-> t[i],
                       cols |-> Without(d.cols, i), cells |-> Without(t, i)]]
    IN  MapBag(stored, d.rows)

\* .mode("overwrite"): what was stored at the path is replaced.
Commit_Overwrite(dataset, rows) ==
    LET paths == {t.path : t \in BagToSet(rows)}
        kept  == {t \in BagToSet(dataset) : t.path \notin paths}
    IN  [t \in kept |-> dataset[t]] (+) rows

\* A write that leaves out the rows the dataset already holds.
Commit_Dedup(dataset, rows) ==
    LET fresh == {t \in BagToSet(rows) : ~BagIn(t, dataset)}
    IN  dataset (+) [t \in fresh |-> rows[t]]

\* .mode("append"): what the dataset holds after the rows are committed.
Commit(dataset, rows) == dataset (+) rows

----------------------------------------------------------------------------
(* The script *)

\* The options handed to getResolvedOptions (lines 13-17).
Options == {"RAW_BUCKET", "RAW_PREFIX", "CURATED_BUCKET", "CURATED_PREFIX",
            "S3_OBJECT_KEY"}

\* getResolvedOptions(sys.argv, options) returns only when argv supplies every
\* option of the list; otherwise it raises.
Resolves(av) == Options \subseteq DOMAIN av

GetResolvedOptions(av) == [k \in Options |-> av[k]]

NoArgs == [k \in {} |-> Str_empty]

\* dict.get(key, default)
DictGet(d, k, default) == IF k \in DOMAIN d THEN d[k] ELSE default

RAW_BUCKET(r)     == args[r]["RAW_BUCKET"]
RAW_PREFIX(r)     == args[r]["RAW_PREFIX"]
CURATED_BUCKET(r) == args[r]["CURATED_BUCKET"]
CURATED_PREFIX(r) == args[r]["CURATED_PREFIX"]
OBJ_KEY(r)        == DictGet(args[r], "S3_OBJECT_KEY", Str_empty)

\* The command lines the model starts the script with: every choice of the
\* values, with no option, S3_OBJECT_KEY or RAW_BUCKET left out.
KeyValues == {Str_empty, Key_FCSV, Key_bjson, Key_acsv}

FullArgv ==
    [RAW_BUCKET : {Bkt_raw, Bkt_lake}, RAW_PREFIX : {Pfx_d, Pfx_h},
     CURATED_BUCKET : {Bkt_cur}, CURATED_PREFIX : {Pfx_out, Pfx_alt},
     S3_OBJECT_KEY : KeyValues]

Argvs ==
    {[k \in Options \ omit |-> f[k]] :
        f \in FullArgv, omit \in {{}, {"S3_OBJECT_KEY"}, {"RAW_BUCKET"}}}

\* Line 33 with the suffix written "csv", without its dot.
ShouldSkip_NoDot(key) == key # Str_empty /\ ~EndsWith(Lower(key), Str_csv)

\* Line 33 without its "OBJ_KEY and".
ShouldSkip_EmptyToo(key) == ~EndsWith(Lower(key), Str_dotcsv)

\* Line 33: OBJ_KEY and not OBJ_KEY.lower().endswith(".csv")
ShouldSkip(key) == key # Str_empty /\ ~EndsWith(Lower(key), Str_dotcsv)

\* Line 37 with the key looked up under RAW_PREFIX.
SrcPath_UnderPrefix(bucket, prefix, key) ==
    IF key # Str_empty
    THEN Str_s3 \o bucket \o Str_slash \o prefix \o Str_slash \o key
    ELSE Str_s3 \o bucket \o Str_slash \o prefix

\* Line 37
SrcPath(bucket, prefix, key) ==
    IF key # Str_empty THEN Str_s3 \o bucket \o Str_slash \o key
                       ELSE Str_s3 \o bucket \o Str_slash \o prefix

\* Line 44 with the date taken from the clock again.
LitDate_Now(r) == Strftime(utc_date)

\* Line 44: the value of F.lit(ingest_date)
LitDate(r) == ingest_date[r]

\* Line 46
OutPath(bucket, prefix) == Str_s3 \o bucket \o Str_slash \o prefix

SkipMessage(key) == [text |-> "Non-CSV detected; skipping.", key |-> key]

WroteMessage(path, date) ==
    [text |-> "Wrote Parquet", path |-> path, partition |-> date]

Init ==
    /\ utc_date = 0
    /\ dest = Legacy
    /\ pc = [r \in Runs |-> "idle"]
    /\ argv = [r \in Runs |-> NoArgs]
    /\ args = [r \in Runs |-> NoArgs]
    /\ ingest_date = [r \in Runs |-> ""]
    /\ src_path = [r \in Runs |-> Str_empty]
    /\ df = [r \in Runs |-> NoDF]
    /\ df2 = [r \in Runs |-> NoDF]
    /\ out_path = [r \in Runs |-> Str_empty]
    /\ stdout = [r \in Runs |-> <<>>]
    /\ exit_status = [r \in Runs |-> "none"]
    /\ error = [r \in Runs |-> "none"]
    /\ started_on = [r \in Runs |-> -1]
    /\ written_on = [r \in Runs |-> -1]
    /\ trace = [r \in Runs |-> <<>>]
    /\ written = [r \in Runs |-> EmptyBag]

\* The UTC day changes.
Tick ==
    /\ utc_date < MaxDate
    /\ utc_date' = utc_date + 1
    /\ UNCHANGED <<dest, pc, argv, args, ingest_date, src_path, df, df2,
                   out_path, stdout, exit_status, error, started_on, written_on, trace,
          written>>

\* Lines 13-30, for a command line among argvs: the options are resolved and the ingest date is taken from
\* the clock; a missing option ends the run with the resolver's error.
LaunchFrom(r, argvs) ==
    /\ pc[r] = "idle"
    /\ \E av \in argvs :
        /\ argv' = [argv EXCEPT ![r] = av]
        /\ IF Resolves(av)
           THEN /\ args' = [args EXCEPT ![r] = GetResolvedOptions(av)]
                /\ ingest_date' = [ingest_date EXCEPT ![r] = Strftime(utc_date)]
                /\ pc' = [pc EXCEPT ![r] = "guard"]
                /\ trace' = [trace EXCEPT ![r] = <<"START">>]
                /\ UNCHANGED <<exit_status, error>>
           ELSE /\ pc' = [pc EXCEPT ![r] = "END"]
                /\ exit_status' = [exit_status EXCEPT ![r] = "1"]
                /\ error' = [error EXCEPT ![r] = "GlueArgumentError"]
                /\ trace' = [trace EXCEPT ![r] = <<"START", "END">>]
                /\ UNCHANGED <<args, ingest_date>>
    /\ started_on' = [started_on EXCEPT ![r] = utc_date]
    /\ UNCHANGED <<utc_date, dest, src_path, df, df2, out_path, stdout,
                   written_on, written>>

Launch(r) == LaunchFrom(r, Argvs)

\* Lines 32-37 without the sys.exit(0) of line 35.
Guard_NoExit(r) ==
    /\ pc[r] = "guard"
    /\ IF ShouldSkip(OBJ_KEY(r))
       THEN /\ stdout' = [stdout EXCEPT ![r] = Append(@, SkipMessage(OBJ_KEY(r)))]
            /\ trace' = [trace EXCEPT ![r] = @ \o <<"GUARD", "SKIP">>]
       ELSE /\ trace' = [trace EXCEPT ![r] = Append(@, "GUARD")]
            /\ UNCHANGED stdout
    /\ src_path' = [src_path EXCEPT ![r] =
                       SrcPath(RAW_BUCKET(r), RAW_PREFIX(r), OBJ_KEY(r))]
    /\ pc' = [pc EXCEPT ![r] = "read"]
    /\ UNCHANGED <<utc_date, dest, argv, args, ingest_date, df, df2, out_path,
                   exit_status, error, started_on, written_on, written>>

\* Lines 32-37: the guard; a non-CSV key prints and exits 0, otherwise the
\* source path is built.
Guard(r) ==
    /\ pc[r] = "guard"
    /\ IF ShouldSkip(OBJ_KEY(r))
       THEN /\ stdout' = [stdout EXCEPT ![r] = Append(@, SkipMessage(OBJ_KEY(r)))]
            /\ exit_status' = [exit_status EXCEPT ![r] = "0"]
            /\ pc' = [pc EXCEPT ![r] = "END"]
            /\ trace' = [trace EXCEPT ![r] = @ \o <<"GUARD", "SKIP", "END">>]
            /\ UNCHANGED src_path
       ELSE /\ src_path' = [src_path EXCEPT ![r] =
                               SrcPath(RAW_BUCKET(r), RAW_PREFIX(r), OBJ_KEY(r))]
            /\ pc' = [pc EXCEPT ![r] = "read"]
            /\ trace' = [trace EXCEPT ![r] = Append(@, "GUARD")]
            /\ UNCHANGED <<stdout, exit_status>>
    /\ UNCHANGED <<utc_date, dest, argv, args, ingest_date, df, df2, out_path,
                   error, started_on, written_on, written>>

\* Lines 39-42, the read returns.
ReadOk(r) ==
    /\ pc[r] = "read"
    /\ Listing(src_path[r]) # {}
    /\ df' = [df EXCEPT ![r] = ReadCsv(src_path[r])]
    /\ pc' = [pc EXCEPT ![r] = "transform"]
    /\ trace' = [trace EXCEPT ![r] = Append(@, "READ")]
    /\ UNCHANGED <<utc_date, dest, argv, args, ingest_date, src_path, df2,
                   out_path, stdout, exit_status, error, started_on, written_on,
                   written>>

\* Lines 39-42 with the read's error caught and the script going on.
ReadFails_Swallowed(r) ==
    /\ pc[r] = "read"
    /\ pc' = [pc EXCEPT ![r] = "transform"]
    /\ error' = [error EXCEPT ![r] = "ReadFailure"]
    /\ trace' = [trace EXCEPT ![r] = Append(@, "READ")]
    /\ UNCHANGED <<utc_date, dest, argv, args, ingest_date, src_path, df, df2,
                   out_path, stdout, exit_status, started_on, written_on,
                   written>>

\* Lines 39-42, the read raises (no object at the path, or the source cannot
\* be read); nothing catches it.
ReadFails(r) ==
    /\ pc[r] = "read"
    /\ pc' = [pc EXCEPT ![r] = "END"]
    /\ exit_status' = [exit_status EXCEPT ![r] = "1"]
    /\ error' = [error EXCEPT ![r] = "ReadFailure"]
    /\ trace' = [trace EXCEPT ![r] = @ \o <<"READ", "END">>]
    /\ UNCHANGED <<utc_date, dest, argv, args, ingest_date, src_path, df, df2,
                   out_path, stdout, started_on, written_on, written>>

\* Lines 44-46
Transform(r) ==
    /\ pc[r] = "transform"
    /\ df2' = [df2 EXCEPT ![r] = WithColumn(df[r], "ingest_date", LitDate(r))]
    /\ out_path' = [out_path EXCEPT ![r] =
                       OutPath(CURATED_BUCKET(r), CURATED_PREFIX(r))]
    /\ pc' = [pc EXCEPT ![r] = "write"]
    /\ trace' = [trace EXCEPT ![r] = Append(@, "TRANSFORM")]
    /\ UNCHANGED <<utc_date, dest, argv, args, ingest_date, src_path, df,
                   stdout, exit_status, error, started_on, written_on, written>>

\* Lines 48-53, the write returns: the rows are in the dataset.
WriteOk(r) ==
    /\ pc[r] = "write"
    /\ LET rows == Partitioned(df2[r], "ingest_date", out_path[r])
       IN  /\ dest' = Commit(dest, rows)
           /\ written' = [written EXCEPT ![r] = rows]
    /\ written_on' = [written_on EXCEPT ![r] = utc_date]
    /\ pc' = [pc EXCEPT ![r] = "confirm"]
    /\ trace' = [trace EXCEPT ![r] = Append(@, "WRITE")]
    /\ UNCHANGED <<utc_date, argv, args, ingest_date, src_path, df, df2,
                   out_path, stdout, exit_status, error, started_on>>

\* Lines 48-53, the write raises; nothing catches it and nothing is committed.
WriteFails(r) ==
    /\ pc[r] = "write"
    /\ pc' = [pc EXCEPT ![r] = "END"]
    /\ exit_status' = [exit_status EXCEPT ![r] = "1"]
    /\ error' = [error EXCEPT ![r] = "WriteFailure"]
    /\ trace' = [trace EXCEPT ![r] = @ \o <<"WRITE", "END">>]
    /\ UNCHANGED <<utc_date, dest, argv, args, ingest_date, src_path, df, df2,
                   out_path, stdout, started_on, written_on, written>>

\* Line 55, and the script ends.
Confirm(r) ==
    /\ pc[r] = "confirm"
    /\ stdout' = [stdout EXCEPT ![r] =
                     Append(@, WroteMessage(out_path[r], ingest_date[r]))]
    /\ exit_status' = [exit_status EXCEPT ![r] = "0"]
    /\ pc' = [pc EXCEPT ![r] = "END"]
    /\ trace' = [trace EXCEPT ![r] = @ \o <<"CONFIRM", "END">>]
    /\ UNCHANGED <<utc_date, dest, argv, args, ingest_date, src_path, df, df2,
                   out_path, error, started_on, written_on, written>>

\* One step of the script in execution r, once it is started.
Step(r) ==
    \/ Guard(r)
    \/ ReadOk(r)
    \/ ReadFails(r)
    \/ Transform(r)
    \/ WriteOk(r)
    \/ WriteFails(r)
    \/ Confirm(r)

Next ==
    \/ Tick
    \/ \E r \in Runs : Launch(r)
    \/ \E r \in Runs : Step(r)

Spec == Init /\ [][Next]_vars

\* The command lines of the scenarios: a prefix scan, a key in mixed case,
\* a non-CSV key, a prefix with no object under it, and no key option.
ScenarioArgvs ==
    LET base == [RAW_BUCKET |-> Bkt_raw, RAW_PREFIX |-> Pfx_d,
                 CURATED_BUCKET |-> Bkt_cur, CURATED_PREFIX |-> Pfx_out,
                 S3_OBJECT_KEY |-> Str_empty]
    IN  { base,
          [base EXCEPT !["S3_OBJECT_KEY"] = Key_FCSV],
          [base EXCEPT !["S3_OBJECT_KEY"] = Key_bjson],
          [base EXCEPT !["RAW_BUCKET"] = Bkt_lake, !["RAW_PREFIX"] = Pfx_h],
          [k \in Options \ {"S3_OBJECT_KEY"} |-> base[k]] }

ScenarioNext ==
    \/ Tick
    \/ \E r \in Runs : LaunchFrom(r, ScenarioArgvs)
    \/ \E r \in Runs : Step(r)

\* The executions of the scenarios, each started script running on: every
\* call of the engine returns or raises, and the interpreter takes the next
\* statement.
FairSpec ==
    Init /\ [][ScenarioNext]_vars /\ \A r \in Runs : WF_vars(Step(r))

----------------------------------------------------------------------------
(* What the properties below speak of *)

Started(r) == pc[r] # "idle"

\* Execution r got its options resolved, and has left the guard behind.
PastGuard(r) == Started(r) /\ args[r] # NoArgs /\ pc[r] # "guard"

\* The last four characters of key, lower-cased, are ".csv".
NamesCsv(key) ==
    /\ Len(key) >= 4
    /\ \A i \in 1..4 : LowerChar(key[Len(key) - 4 + i]) = Str_dotcsv[i]

Occurrences(seq, x) == Cardinality({i \in 1..Len(seq) : seq[i] = x})

IsPrefix(p, q) == Len(p) <= Len(q) /\ SubSeq(q, 1, Len(p)) = p

\* The objects the source location of execution r names: the object of the
\* given key in RAW_BUCKET, or every object of RAW_BUCKET under RAW_PREFIX.
SourceObjects(r) ==
    {o \in Store :
        /\ o.bucket = args[r]["RAW_BUCKET"]
        /\ IF args[r]["S3_OBJECT_KEY"] # Str_empty
           THEN o.key = args[r]["S3_OBJECT_KEY"]
           ELSE StartsWith(o.key, args[r]["RAW_PREFIX"] \o Str_slash)}

\* Execution r ended after a completed write.
Succeeded(r) ==
    pc[r] = "END" /\ exit_status[r] = "0" /\ written_on[r] >= 0

\* The write of execution r has returned.
Wrote(r) == written_on[r] >= 0 /\ error[r] = "none"

SeqToSet(seq) == {seq[i] : i \in 1..Len(seq)}

\* Stored row `row` holds the cells of the i-th data row of object o, column
\* by column (a source column named ingest_date aside).
HoldsCells(row, o, i) ==
    \A k \in 1..Len(o.header) :
        o.header[k] # "ingest_date"
           => \E j \in 1..Len(row.cols) :
                 row.cols[j] = o.header[k] /\ row.cells[j] = o.rows[i][k]

----------------------------------------------------------------------------
\* C1: whenever S3_OBJECT_KEY is non-empty and its lower-cased value does not
\* end with ".csv", the run takes no read step and no write step (it commits
\* nothing to the destination), prints the skip message naming the key and
\* exits with status 0.
C1_NonCsvKeySkips ==
    \A r \in Runs :
        (/\ PastGuard(r)
         /\ args[r]["S3_OBJECT_KEY"] # Str_empty
         /\ ~NamesCsv(args[r]["S3_OBJECT_KEY"]))
        => /\ trace[r] = <<"START", "GUARD", "SKIP", "END">>
           /\ pc[r] = "END"
           /\ exit_status[r] = "0"
           /\ stdout[r] = <<SkipMessage(args[r]["S3_OBJECT_KEY"])>>
           /\ df[r] = NoDF
           /\ written[r] = EmptyBag
           /\ written_on[r] = -1

C1_Witness ==
    \E r \in Runs :
        /\ PastGuard(r)
        /\ args[r]["S3_OBJECT_KEY"] = Key_bjson
        /\ exit_status[r] = "0"
        /\ dest = Legacy

\* C2: every row a run writes carries, as its ingest_date and hence as its
\* partition, the UTC date captured when the run started, the same for all
\* its rows and the one the confirmation names, also when the UTC date has
\* changed before the write.
C2_RowsCarryStartDate ==
    \A r \in Runs :
        /\ Started(r) /\ args[r] # NoArgs => ingest_date[r] = Strftime(started_on[r])
        /\ \A row \in BagToSet(written[r]) :
              row.ingest_date = Strftime(started_on[r])
        /\ \A i \in 1..Len(stdout[r]) :
              stdout[r][i].text = "Wrote Parquet"
                 => stdout[r][i].partition = Strftime(started_on[r])

C2_Witness ==
    \E r \in Runs :
        /\ Succeeded(r)
        /\ written_on[r] > started_on[r]
        /\ written[r] # EmptyBag
        /\ args[r]["RAW_PREFIX"] = Pfx_h
        /\ args[r]["S3_OBJECT_KEY"] = Str_empty

\* C3: for every successful run and every source header, the output columns
\* other than ingest_date are exactly the columns of the source header, and
\* the output has exactly one column more than the header.
C3_ColumnsKept ==
    \A r \in Runs :
        Succeeded(r) =>
            \A row \in BagToSet(written[r]) :
                LET header == SeqToSet((CHOOSE o \in SourceObjects(r) : TRUE).header)
                    output == SeqToSet(row.cols) \cup {"ingest_date"}
                IN  /\ output \ {"ingest_date"} = header
                    /\ Cardinality(output) = Cardinality(header) + 1

\* C4: a step of any run only adds rows to the destination: every row that
\* is there before the step is there after it, as many times.
C4_AppendOnly == [][dest \sqsubseteq dest']_vars

C4_Witness ==
    \E r \in Runs :
        /\ written_on[r] >= 0
        /\ \E old \in BagToSet(Legacy), row \in BagToSet(written[r]) :
              /\ row.path = old.path
              /\ row.ingest_date = old.ingest_date
              /\ CopiesIn(old, dest) >= 1
              /\ CopiesIn(row, dest) >= 1

\* C5: two runs with the same source and destination on the same UTC date
\* whose writes have returned, one after the other or interleaved, each add
\* every source row: the destination then holds every such row (at least)
\* twice more than before, in the one ingest_date partition; and a run that
\* stands before its write can always take it, whatever the other run did.
C5_RerunDuplicates ==
    /\ \A r \in Runs : pc[r] = "write" => ENABLED WriteOk(r)
    /\ \A r1, r2 \in Runs :
        (/\ r1 # r2
         /\ Wrote(r1) /\ Wrote(r2)
         /\ args[r1] = args[r2]
         /\ started_on[r1] = started_on[r2])
        => /\ written[r1] = written[r2]
           /\ BagCardinality(written[r1]) =
                 BagCardinality(RowsOf(SourceObjects(r1)))
           /\ \A row \in BagToSet(written[r1]) :
                 /\ row.ingest_date = Strftime(started_on[r1])
                 /\ CopiesIn(row, dest) >=
                       CopiesIn(row, Legacy) + 2 * CopiesIn(row, written[r1])

\* Both runs stand between their write and its confirmation: they overlapped.
C5_Witness ==
    \E r1, r2 \in Runs :
        /\ r1 # r2
        /\ pc[r1] = "confirm" /\ pc[r2] = "confirm"
        /\ args[r1] = args[r2]
        /\ started_on[r1] = started_on[r2]
        /\ \E row \in BagToSet(written[r1]) : CopiesIn(row, dest) = 4

\* C6: a run started with the four required options and without
\* S3_OBJECT_KEY is no configuration error: the key resolves to the empty
\* string and the run goes on to the guard.
C6_KeyOptional ==
    \A r \in Runs :
        (Started(r) /\ DOMAIN argv[r] = Options \ {"S3_OBJECT_KEY"})
        => /\ error[r] # "GlueArgumentError"
           /\ args[r] # NoArgs
           /\ OBJ_KEY(r) = Str_empty

\* C7: the path read names RAW_BUCKET with the given key when there is one
\* (whatever RAW_PREFIX is) and with RAW_PREFIX otherwise; what a read
\* returns is the rows of exactly those objects; the destination is
\* <CURATED_BUCKET>/<CURATED_PREFIX>.
C7_Locations ==
    \A r \in Runs :
        /\ (PastGuard(r) /\ "SKIP" \notin SeqToSet(trace[r]))
           => /\ PathBucket(src_path[r]) = args[r]["RAW_BUCKET"]
              /\ PathKey(src_path[r]) =
                    IF args[r]["S3_OBJECT_KEY"] # Str_empty
                    THEN args[r]["S3_OBJECT_KEY"] ELSE args[r]["RAW_PREFIX"]
        /\ pc[r] \in {"transform", "write", "confirm"}
           => /\ SourceObjects(r) # {}
              /\ df[r].rows = RowsOf(SourceObjects(r))
        /\ \A row \in BagToSet(written[r]) :
              /\ PathBucket(row.path) = args[r]["CURATED_BUCKET"]
              /\ PathKey(row.path) = args[r]["CURATED_PREFIX"]

C7_Witness ==
    \E r \in Runs :
        /\ Succeeded(r)
        /\ args[r]["S3_OBJECT_KEY"] = Key_FCSV
        /\ args[r]["RAW_PREFIX"] = Pfx_h
        /\ args[r]["RAW_BUCKET"] = Bkt_lake
        /\ args[r]["CURATED_PREFIX"] = Pfx_alt

\* C8: a run in which the read or the write raised has ended with a
\* non-zero status right after that step, taken once, with no later step
\* and no confirmation printed; status 0 comes only after a completed write
\* or on the skip path.
C8_FailurePropagates ==
    \A r \in Runs :
        /\ error[r] = "ReadFailure"
           => /\ pc[r] = "END" /\ exit_status[r] = "1"
              /\ trace[r] = <<"START", "GUARD", "READ", "END">>
              /\ stdout[r] = <<>> /\ written[r] = EmptyBag
        /\ error[r] = "WriteFailure"
           => /\ pc[r] = "END" /\ exit_status[r] = "1"
              /\ trace[r] = <<"START", "GUARD", "READ", "TRANSFORM", "WRITE", "END">>
              /\ stdout[r] = <<>> /\ written[r] = EmptyBag
        /\ exit_status[r] = "0"
           => /\ error[r] = "none"
              /\ \/ written_on[r] >= 0 /\ Occurrences(trace[r], "WRITE") = 1
                 \/ trace[r] = <<"START", "GUARD", "SKIP", "END">>

C8_Witness ==
    \E r1, r2 \in Runs :
        /\ error[r1] = "ReadFailure" /\ SourceObjects(r1) # {}
        /\ error[r2] = "WriteFailure"

\* C9: the steps of a run are an initial part of START GUARD SKIP or of
\* START GUARD READ TRANSFORM WRITE CONFIRM, closed by END when the run is
\* over; a write is taken only after a read that returned the source's
\* objects, the confirmation is printed only after the write has returned,
\* and every started run reaches END.
C9_PathOk(r) ==
    LET steps == IF pc[r] = "END" THEN SubSeq(trace[r], 1, Len(trace[r]) - 1)
                 ELSE trace[r]
    IN  /\ \/ IsPrefix(steps, <<"START", "GUARD", "SKIP">>)
           \/ IsPrefix(steps, <<"START", "GUARD", "READ", "TRANSFORM", "WRITE",
                                "CONFIRM">>)
        /\ pc[r] = "END" <=> (trace[r] # <<>> /\ trace[r][Len(trace[r])] = "END")
        /\ Occurrences(trace[r], "END") <= 1
        /\ "WRITE" \in SeqToSet(trace[r])
              => SourceObjects(r) # {} /\ df[r].rows = RowsOf(SourceObjects(r))
        /\ written_on[r] >= 0 => "WRITE" \in SeqToSet(trace[r])
        /\ stdout[r] # <<>> /\ stdout[r][1].text = "Wrote Parquet"
              => written_on[r] >= 0 /\ "CONFIRM" \in SeqToSet(trace[r])

C9_LinearPath ==
    /\ [](\A r \in Runs : C9_PathOk(r))
    /\ \A r \in Runs : (pc[r] # "idle") ~> (pc[r] = "END")

C9_Witness ==
    \E r1, r2 \in Runs :
        /\ trace[r1] = <<"START", "GUARD", "SKIP", "END">>
        /\ trace[r2] = <<"START", "GUARD", "READ", "TRANSFORM", "WRITE",
                         "CONFIRM", "END">>

====
